---- MODULE Spec2Model ----
(***************************************************************************)
(* Model of modality_worklist_scu.py: a DICOM service whose three event    *)
(* handlers (handle_echo, handle_find, handle_store) are dispatched by the *)
(* pynetdicom engine, one execution unit per inbound association.          *)
(*                                                                         *)
(* Strings are sequences of one-character strings, so that strip, split,   *)
(* zfill, replace and the regular-expression match are computed and not    *)
(* assumed.  Oracle has no empty VARCHAR2: the empty sequence << >> is the *)
(* NULL column value, which the driver hands to Python as None.  Optional  *)
(* numbers and dates are << >> (None) or a one-value / three-value tuple.  *)
(***************************************************************************)
EXTENDS Integers, Sequences, FiniteSets, TLC

\* ---------------------------------------------------------------- bounds
\* Number of concurrently open inbound associations.
NumSessions == 2
\* Largest number of rows RIS_WORKLIST_VIEW holds.
MaxRows == 2

Sessions == 1..NumSessions

\* ------------------------------------------------------- python strings
None == << >>

Digit(d) ==
    CASE d = 0 -> "0" [] d = 1 -> "1" [] d = 2 -> "2" [] d = 3 -> "3"
      [] d = 4 -> "4" [] d = 5 -> "5" [] d = 6 -> "6" [] d = 7 -> "7"
      [] d = 8 -> "8" [] d = 9 -> "9"

RECURSIVE IntStr(_)
\* str(n) for a non-negative int: its decimal digits, no leading zero.
IntStr(n) == IF n < 10 THEN << Digit(n) >> ELSE IntStr(n \div 10) \o << Digit(n % 10) >>

\* str(x) of an optional number: str(None) is the four letters None.
str(x) == IF x = None THEN << "N", "o", "n", "e" >> ELSE IntStr(x[1])

\* str(x) of a string column: the string itself, or "None".
strOfText(x) == IF x = None THEN << "N", "o", "n", "e" >> ELSE x

RECURSIVE Zeros(_)
Zeros(k) == IF k <= 0 THEN << >> ELSE << "0" >> \o Zeros(k - 1)

\* Variant: the zeros are put after the digits.
zfill_right(s, width) == s \o Zeros(width - Len(s))

\* s.zfill(width) for a string without sign: left-pad with zeros, never cut.
zfill(s, width) == Zeros(width - Len(s)) \o s

\* Variant: only the first occurrence is replaced.
replace_first(s, old, new) ==
    IF \E k \in 1..Len(s) : s[k] = old
    THEN LET k == CHOOSE k \in 1..Len(s) : s[k] = old /\ \A j \in 1..(k - 1) : s[j] # old
         IN  SubSeq(s, 1, k - 1) \o new \o SubSeq(s, k + 1, Len(s))
    ELSE s

RECURSIVE replace(_, _, _)
\* s.replace(old, new) for a one-character old and a new of length <= 1.
replace(s, old, new) ==
    IF s = << >> THEN << >>
    ELSE (IF Head(s) = old THEN new ELSE << Head(s) >>) \o replace(Tail(s), old, new)

IsSpace(c) == c = " "

RECURSIVE lstrip(_)
lstrip(s) == IF s # << >> /\ IsSpace(Head(s)) THEN lstrip(Tail(s)) ELSE s

RECURSIVE rstrip(_)
rstrip(s) ==
    IF s # << >> /\ IsSpace(s[Len(s)]) THEN rstrip(SubSeq(s, 1, Len(s) - 1)) ELSE s

strip(s) == rstrip(lstrip(s))

RECURSIVE splitFrom(_, _)
\* s.split(): the maximal runs of non-whitespace; cur is the run being read.
splitFrom(s, cur) ==
    IF s = << >> THEN (IF cur = << >> THEN << >> ELSE << cur >>)
    ELSE IF IsSpace(Head(s))
         THEN (IF cur = << >> THEN << >> ELSE << cur >>) \o splitFrom(Tail(s), << >>)
         ELSE splitFrom(Tail(s), Append(cur, Head(s)))

split(s) == splitFrom(s, << >>)

RECURSIVE join(_, _)
\* sep.join(parts)
join(sep, parts) ==
    IF parts = << >> THEN << >>
    ELSE IF Len(parts) = 1 THEN parts[1]
    ELSE parts[1] \o sep \o join(sep, Tail(parts))

TwoDigits(n) == << Digit(n \div 10), Digit(n % 10) >>

\* date.strftime('%Y%m%d') for a date << y, m, d >> with a four-digit year.
strftime(date) == zfill(IntStr(date[1]), 4) \o TwoDigits(date[2]) \o TwoDigits(date[3])

\* ------------------------------------------------------ status vocabulary
\* 0x0000, handle_find's "no worklist entries" and handle_echo's status.
STATUS_SUCCESS == 0
\* 0xFF00, the status of each worklist response.
STATUS_PENDING == 65280
\* 0xC000 "Failed - Unable to understand".
STATUS_C000 == 49152
\* 0xC001 "Failed - Out of Resources".
STATUS_C001 == 49153
\* 0xC002 "Failed - Unable to process".
STATUS_C002 == 49154

\* What send_c_store can hand back: an empty Dataset (<< >>, falsy: no usable
\* response) or a Dataset holding the downstream node's Status: success
\* 0x0000, warning 0xB000, failure 0xA700 (refused, out of resources).
DownstreamStatuses == { << >>, << 0 >>, << 45056 >>, << 42752 >> }

IsSuccessStatus(st) == st # << >> /\ st[1] = 0
IsFailureStatus(st) == st # << >> /\ st[1] \div 4096 \in {10, 12}

\* -------------------------------------------------------- RIS_WORKLIST_VIEW
\* One row of the SELECT list, by column name; the columns the handler never
\* reads (PERSONAL_ID, BENEFACTOR_ID, MEDICAL_CENTER_ID, ROOM, ROOM_NUMBER,
\* ROOM_LETTER, SHIFT) are left out.  row[0] is PATIENT_NAME, row[3]
\* APPOINTMENT_DATE, row[4] HOUR, row[5] BIRTHDATE, row[6] SEX, row[8]
\* SPECIALTY_ID, row[9] STUDY_DESCRIPTION, row[10] APPOINTMENT_ID, row[11]
\* PHYSICIAN_NAME, row[12] PHYSYCIAN_ID, row[16] MEDICAL_CENTER_NAME, row[17]
\* PATIENT_ID, row[18] AETitle, row[19] ACCOUNT_NUMBER.
Row(name, hour, apptId, physName, physId, patId, aeList) ==
    [ PATIENT_NAME        |-> name,
      APPOINTMENT_DATE    |-> << 2024, 3, 9 >>,
      HOUR                |-> hour,
      BIRTHDATE           |-> << 1980, 12, 1 >>,
      SEX                 |-> << "F" >>,
      SPECIALTY_ID        |-> << "C", "R" >>,
      STUDY_DESCRIPTION   |-> << "R", "X" >>,
      APPOINTMENT_ID      |-> apptId,
      PHYSICIAN_NAME      |-> physName,
      PHYSYCIAN_ID        |-> physId,
      MEDICAL_CENTER_NAME |-> << "H" >>,
      PATIENT_ID          |-> patId,
      AETitle             |-> aeList,
      ACCOUNT_NUMBER      |-> << 9 >> ]

\* The rows the view may hold: a three-token name with both physician
\* columns set; a two-token name with NULL physician columns whose endpoint
\* list holds a longer title starting like another; a row with a NULL patient
\* name, of the same HOUR as the first.
SampleRows ==
    { Row(<< "A", " ", "B", " ", "C" >>, << "0", "8", ":", "0", "0" >>, << 7 >>,
          << "D", "R" >>, << 5 >>, << "P", "_", "1" >>, << "A", "1", ",", "A", "2" >>),
      Row(<< "X", " ", "Y" >>, << "0", "7", ":", "3", "0" >>, << 123 >>,
          None, None, << "P", ".", "1" >>, << "A", "1", "0", ",", "A", "2" >>),
      Row(None, << "0", "8", ":", "0", "0" >>, << 8 >>,
          << "D", "R" >>, << 5 >>, << "Q" >>, << "A", "1" >>) }

\* The contents the view can have: any set of at most MaxRows sample rows.
Views == { v \in SUBSET SampleRows : Cardinality(v) <= MaxRows }

\* The requestor AE titles of the inbound associations.
RequestorAEs == { << "A", "1" >>, << "A", "2" >> }

\* --------------------------------------------------------------- the query
\* One pattern character against one subject character: the AE title is
\* concatenated into the regular expression, so a period in it is the
\* any-character operator; every other character of the alphabet is literal.
RegexCharMatch(p, c) == p = "." \/ p = c

\* REGEXP_LIKE(AETitle, '(^|,)' || :aetitle || '(,|$)'): the title occurs in
\* the list, preceded by the start or a comma, followed by a comma or the end.
\* A NULL AETitle matches nothing.
REGEXP_LIKE(list, aetitle) ==
    /\ list # None
    /\ \E p \in 1..(Len(list) + 1) :
          /\ p = 1 \/ list[p - 1] = ","
          /\ p + Len(aetitle) - 1 <= Len(list)
          /\ \A k \in 1..Len(aetitle) : RegexCharMatch(aetitle[k], list[p + k - 1])
          /\ \/ p + Len(aetitle) = Len(list) + 1
             \/ list[p + Len(aetitle)] = ","

CharCode(c) ==
    CASE c = "0" -> 48 [] c = "1" -> 49 [] c = "2" -> 50 [] c = "3" -> 51
      [] c = "4" -> 52 [] c = "5" -> 53 [] c = "6" -> 54 [] c = "7" -> 55
      [] c = "8" -> 56 [] c = "9" -> 57 [] c = ":" -> 58

RECURSIVE TextLeq(_, _)
\* Binary string comparison a <= b.
TextLeq(a, b) ==
    IF a = << >> THEN TRUE
    ELSE IF b = << >> THEN FALSE
    ELSE IF Head(a) = Head(b) THEN TextLeq(Tail(a), Tail(b))
    ELSE CharCode(Head(a)) < CharCode(Head(b))

\* ORDER BY HOUR ASC: ascending, NULL last.
HourLeq(h1, h2) ==
    IF h2 = None THEN TRUE ELSE IF h1 = None THEN FALSE ELSE TextLeq(h1, h2)

\* The result sets cursor.fetchall() can return for the query: the DISTINCT
\* rows of the view whose AETitle matches, each once, ascending by HOUR; rows
\* of equal HOUR come in an order the database chooses.
QueryResults(view, aetitle) ==
    LET matching == { r \in view : REGEXP_LIKE(r.AETitle, aetitle) }
        n == Cardinality(matching)
    IN  { rows \in [1..n -> matching] :
            /\ \A i, j \in 1..n : i # j => rows[i] # rows[j]
            /\ \A i \in 1..(n - 1) : HourLeq(rows[i].HOUR, rows[i + 1].HOUR) }

\* ------------------------------------------------- handle_find's loop body
\* The statements of the loop body that raise AttributeError on a None:
\* row[0].strip(), row[5].strftime, row[3].strftime, row[4].replace.
RowRaises(row) ==
    \/ row.PATIENT_NAME = None
    \/ row.BIRTHDATE = None
    \/ row.APPOINTMENT_DATE = None
    \/ row.HOUR = None

\* Variant: only the last token is taken as the surname.
formatted_name_one_surname(row) ==
    LET full_name == strip(row.PATIENT_NAME)
        name_parts == split(full_name)
        n == Len(name_parts)
    IN  IF n >= 3
        THEN join(<< " " >>, SubSeq(name_parts, n, n)) \o << " " >>
                 \o join(<< " " >>, SubSeq(name_parts, 1, n - 1))
        ELSE full_name

formatted_name(row) ==
    LET full_name == strip(row.PATIENT_NAME)
        name_parts == split(full_name)
        n == Len(name_parts)
    IN  IF n >= 3
        THEN join(<< " " >>, SubSeq(name_parts, n - 1, n)) \o << " " >>
                 \o join(<< " " >>, SubSeq(name_parts, 1, n - 2))
        ELSE full_name

physician(row) == IF row.PHYSICIAN_NAME # None THEN row.PHYSICIAN_NAME
                  ELSE << "U", "n", "k", "n", "o", "w", "n" >>

\* perf_phys: the one item of ScheduledPerformingPhysicianSequence.
perf_phys(row) ==
    [ PersonName       |-> physician(row),
      PersonIdentifier |-> IF row.PHYSYCIAN_ID # None /\ row.PHYSYCIAN_ID # << 0 >>
                           THEN str(row.PHYSYCIAN_ID) ELSE << >> ]

\* Variant: the physician sequence is left empty when the row names none.
sched_without_unnamed_physician(row) ==
    [ ScheduledProcedureStepStartDate      |-> strftime(row.APPOINTMENT_DATE),
      ScheduledProcedureStepStartTime      |-> replace(row.HOUR, ":", << >>),
      ScheduledProcedureStepDescription    |-> row.STUDY_DESCRIPTION,
      ScheduledProcedureStepID             |-> str(row.APPOINTMENT_ID),
      Modality                             |-> row.SPECIALTY_ID,
      ProcedureStepLocation                |-> row.MEDICAL_CENTER_NAME,
      ScheduledStationAETitle              |-> row.AETitle,
      ScheduledPerformingPhysicianSequence |->
          IF row.PHYSICIAN_NAME = None THEN << >> ELSE << perf_phys(row) >> ]

\* sched: the one item of ScheduledProcedureStepSequence.
sched(row) ==
    [ ScheduledProcedureStepStartDate      |-> strftime(row.APPOINTMENT_DATE),
      ScheduledProcedureStepStartTime      |-> replace(row.HOUR, ":", << >>),
      ScheduledProcedureStepDescription    |-> row.STUDY_DESCRIPTION,
      ScheduledProcedureStepID             |-> str(row.APPOINTMENT_ID),
      Modality                             |-> row.SPECIALTY_ID,
      ProcedureStepLocation                |-> row.MEDICAL_CENTER_NAME,
      ScheduledStationAETitle              |-> row.AETitle,
      ScheduledPerformingPhysicianSequence |-> << perf_phys(row) >> ]

\* ds: the dataset the loop body builds from one row that does not raise.
BuildDataset(row) ==
    LET appointment_id_str == str(row.APPOINTMENT_ID)
        PatientID == strOfText(row.PATIENT_ID)
        clean_pid == replace(PatientID, "_", << "." >>)
    IN  [ SpecificCharacterSet |-> "ISO_IR 100",
          PatientID            |-> PatientID,
          PatientName          |-> formatted_name(row) \o << " ", "-", " " >>
                                       \o strOfText(row.AETitle),
          PatientBirthDate     |-> strftime(row.BIRTHDATE),
          PatientSex           |-> row.SEX,
          PatientComments      |-> << "A", "C", "C", "O", "U", "N", "T", "_", "N", "U",
                                      "M", "B", "E", "R", ":", " " >>
                                       \o str(row.ACCOUNT_NUMBER),
          AccessionNumber      |-> zfill(appointment_id_str, 8),
          RequestedProcedureID |-> zfill(appointment_id_str, 6),
          RequestedProcedureDescription |-> row.STUDY_DESCRIPTION,
          StudyInstanceUID     |-> << "1", ".", "2", ".", "3", "." >>
                                       \o appointment_id_str \o << "." >> \o clean_pid,
          ReferringPhysicianName |-> physician(row),
          ScheduledProcedureStepSequence |-> << sched(row) >> ]

\* ------------------------------------------------------------ handlers
\* What a handler hands back to the engine: a status (handle_echo,
\* handle_store), a list of (status, identifier) responses (handle_find), or
\* an exception that leaves the handler.
NoResult == [ kind |-> "none", status |-> -1, responses |-> << >> ]
ReturnStatus(code) == [ kind |-> "status", status |-> code, responses |-> << >> ]
ReturnResponses(rsp) == [ kind |-> "responses", status |-> -1, responses |-> rsp ]
Raise == [ kind |-> "raise", status |-> -1, responses |-> << >> ]

\* Variant: only the DatabaseError clause exists; any other exception leaves
\* get_worklist_from_db.
except_clause_only_database_error(e) ==
    IF e = "DatabaseError" THEN [ kind |-> "return", value |-> << >> ]
    ELSE [ kind |-> "raise", value |-> << >> ]

\* The except clauses of get_worklist_from_db: both log and return [].
except_clause(e) == [ kind |-> "return", value |-> << >> ]

\* Variant: no finally clause, the handles are left as they are.
finally_close_missing(handle) == handle

\* The finally clause of get_worklist_from_db on one handle: `if cursor:
\* cursor.close()`, `if conn: conn.close()`.
finally_close(handle) == IF handle # "None" THEN "closed" ELSE handle

RECURSIVE find_loop_prepend(_, _)
\* Variant: each response is inserted at the head of the list.
find_loop_prepend(rows, responses) ==
    IF rows = << >> THEN ReturnResponses(responses)
    ELSE IF RowRaises(Head(rows)) THEN Raise
    ELSE find_loop_prepend(Tail(rows),
             << << STATUS_PENDING, << BuildDataset(Head(rows)) >> >> >> \o responses)

RECURSIVE find_loop_skip_bad_rows(_, _)
\* Variant: a row whose dataset cannot be built is skipped.
find_loop_skip_bad_rows(rows, responses) ==
    IF rows = << >> THEN ReturnResponses(responses)
    ELSE IF RowRaises(Head(rows)) THEN find_loop_skip_bad_rows(Tail(rows), responses)
    ELSE find_loop_skip_bad_rows(Tail(rows),
             Append(responses, << STATUS_PENDING, << BuildDataset(Head(rows)) >> >>))

RECURSIVE find_loop(_, _)
\* `for row in worklist_entries`: append (0xFF00, ds) per row, in order; an
\* exception in the body leaves the handler and drops the list.
find_loop(rows, responses) ==
    IF rows = << >> THEN ReturnResponses(responses)
    ELSE IF RowRaises(Head(rows)) THEN Raise
    ELSE find_loop(Tail(rows),
                   Append(responses, << STATUS_PENDING, << BuildDataset(Head(rows)) >> >>))

\* Variant: no early return, an empty fetch runs the loop and returns [].
find_return_no_guard(worklist_entries) == find_loop(worklist_entries, << >>)

\* handle_find after the fetch: `if not worklist_entries: return [(0x0000,
\* None)]`, else the loop.
find_return(worklist_entries) ==
    IF worklist_entries = << >>
    THEN ReturnResponses(<< << STATUS_SUCCESS, None >> >>)
    ELSE find_loop(worklist_entries, << >>)

\* Variant: an empty answer falls through to the last return, 0xC000.
store_return_empty_falls_through(status) ==
    IF status # << >> THEN ReturnStatus(status[1]) ELSE ReturnStatus(STATUS_C000)

\* Variant: the downstream status is dropped, every answer yields 0xC001.
store_return_no_passthrough(status) == ReturnStatus(STATUS_C001)

\* handle_store after send and release: `if status: return status` else 0xC001.
\* A Dataset is truthy when it holds any element, whatever its Status says.
store_return(status) ==
    IF status # << >> THEN ReturnStatus(status[1]) ELSE ReturnStatus(STATUS_C001)

\* handle_store's except clause and its fall-through return.
store_except == ReturnStatus(STATUS_C002)
store_fallthrough == ReturnStatus(STATUS_C000)

\* ---------------------------------------------------------------- state
VARIABLES
    config,            \* the module globals ORACLE_* and ORTHANC_* (set at import)
    view,              \* contents of RIS_WORKLIST_VIEW (read only)
    pc,                \* where each session's handler stands
    event,             \* the event dispatched on the session
    conn, cursor,      \* get_worklist_from_db's locals: "None", "open", "closed"
    caught,            \* the exception an except clause of the handler caught, if any
    worklist_entries,  \* handle_find's local
    assoc,             \* handle_store's outbound association
    status,            \* what send_c_store returned
    calls,             \* the calls made on the outbound association, in order
    result             \* what the handler handed back to the engine

vars == << config, view, pc, event, conn, cursor, caught, worklist_entries,
           assoc, status, calls, result >>

dbVars == << conn, cursor, worklist_entries >>
storeVars == << assoc, status, calls >>

NoEvent == [ kind |-> "none", requestor_ae |-> << >> ]

\* The globals as the module's import leaves them: the Oracle settings of
\* db_config.json, the Orthanc settings of forward_orthanc_connection.json.
StartupConfig ==
    [ ORACLE  |-> "db_config.json:oracle",
      ORTHANC |-> "forward_orthanc_connection.json:orthanc" ]

\* No event dispatched yet: every handler's locals are unset.
HandlersIdle ==
    /\ config = StartupConfig
    /\ pc = [s \in Sessions |-> "idle"]
    /\ event = [s \in Sessions |-> NoEvent]
    /\ conn = [s \in Sessions |-> "None"]
    /\ cursor = [s \in Sessions |-> "None"]
    /\ caught = [s \in Sessions |-> "none"]
    /\ worklist_entries = [s \in Sessions |-> << >>]
    /\ assoc = [s \in Sessions |-> "None"]
    /\ status = [s \in Sessions |-> << >>]
    /\ calls = [s \in Sessions |-> << >>]
    /\ result = [s \in Sessions |-> NoResult]

Init ==
    /\ view \in Views
    /\ HandlersIdle

\* The exceptions a database call can raise, by the except clause they reach.
DbExceptions == { "DatabaseError", "Exception" }

\* The engine dispatches one event of an inbound association to its handler.
Dispatch(s) ==
    /\ pc[s] = "idle"
    /\ \E kind \in { "echo", "find", "store" }, ae \in RequestorAEs :
          /\ event' = [event EXCEPT ![s] = [ kind |-> kind, requestor_ae |-> ae ]]
          /\ pc' = [pc EXCEPT ![s] = CASE kind = "echo" -> "handle_echo"
                                       [] kind = "find" -> "get_worklist_from_db"
                                       [] kind = "store" -> "associate"]
    /\ UNCHANGED << config, view, caught, dbVars, storeVars, result >>

\* Variant: the echo handler probes the database before it answers.
handle_echo_probes_db(s) ==
    /\ pc[s] = "handle_echo"
    /\ conn' = [conn EXCEPT ![s] = "closed"]
    /\ result' = [result EXCEPT ![s] = ReturnStatus(STATUS_SUCCESS)]
    /\ pc' = [pc EXCEPT ![s] = "returned"]
    /\ UNCHANGED << config, view, event, caught, cursor, worklist_entries, storeVars >>

\* handle_echo: log and return 0x0000.
handle_echo(s) ==
    /\ pc[s] = "handle_echo"
    /\ result' = [result EXCEPT ![s] = ReturnStatus(STATUS_SUCCESS)]
    /\ pc' = [pc EXCEPT ![s] = "returned"]
    /\ UNCHANGED << config, view, event, caught, dbVars, storeVars >>

\* The points of get_worklist_from_db's try block at which an exception can
\* arise (makedsn/connect, conn.cursor, cursor.execute, cursor.fetchall);
\* "none" is the run that reaches `return cursor.fetchall()`.
FailurePoints == { "connect", "cursor", "execute", "fetchall" }

\* The locals conn and cursor when control reaches the finally clause.
conn_at_finally(point) == IF point = "connect" THEN "None" ELSE "open"
cursor_at_finally(point) == IF point \in { "connect", "cursor" } THEN "None" ELSE "open"

\* get_worklist_from_db(requestor_ae), from its first line to its return
\* into handle_find: the try block, the except clause an exception reaches,
\* the finally clause.  Had an except clause raised, the exception would
\* leave handle_find as well.
get_worklist_from_db(s) ==
    /\ pc[s] = "get_worklist_from_db"
    /\ \E point \in FailurePoints \cup { "none" } :
          /\ cursor' = [cursor EXCEPT ![s] = finally_close(cursor_at_finally(point))]
          /\ conn' = [conn EXCEPT ![s] = finally_close(conn_at_finally(point))]
          /\ \E outcome \in
                 IF point = "none"
                 THEN { [ caught |-> "none", kind |-> "return", value |-> rows ] :
                          rows \in QueryResults(view, event[s].requestor_ae) }
                 ELSE { [ caught |-> e ] @@ except_clause(e) : e \in DbExceptions } :
               /\ caught' = [caught EXCEPT ![s] = outcome.caught]
               /\ IF outcome.kind = "return"
                  THEN /\ worklist_entries' = [worklist_entries EXCEPT ![s] = outcome.value]
                       /\ pc' = [pc EXCEPT ![s] = "handle_find"]
                       /\ UNCHANGED result
                  ELSE /\ result' = [result EXCEPT ![s] = Raise]
                       /\ pc' = [pc EXCEPT ![s] = "returned"]
                       /\ UNCHANGED worklist_entries
    /\ UNCHANGED << config, view, event, storeVars >>

\* handle_find from `if not worklist_entries` to its return.
handle_find(s) ==
    /\ pc[s] = "handle_find"
    /\ result' = [result EXCEPT ![s] = find_return(worklist_entries[s])]
    /\ pc' = [pc EXCEPT ![s] = "returned"]
    /\ UNCHANGED << config, view, event, caught, dbVars, storeVars >>

\* A statement of handle_store's try block raises: `except Exception` logs
\* and returns.
store_raise(s) ==
    /\ caught' = [caught EXCEPT ![s] = "Exception"]
    /\ result' = [result EXCEPT ![s] = store_except]
    /\ pc' = [pc EXCEPT ![s] = "returned"]

\* Variant: the forwarding association is one module-level object, so the
\* association a push establishes is the association of every session.
associate_module_level(s) ==
    /\ pc[s] = "associate"
    /\ assoc' = [t \in Sessions |-> "established"]
    /\ calls' = [calls EXCEPT ![s] = Append(@, "associate")]
    /\ pc' = [pc EXCEPT ![s] = "send_c_store"]
    /\ UNCHANGED << config, view, event, caught, dbVars, status, result >>

\* handle_store up to the associate call: AE(), add_requested_context,
\* forward_ae.associate.  An exception reaches the except clause; an
\* association that is not established falls through to the last return.
associate(s) ==
    /\ pc[s] = "associate"
    /\ \/ /\ store_raise(s)
          /\ UNCHANGED << assoc, calls >>
       \/ /\ assoc' = [assoc EXCEPT ![s] = "not_established"]
          /\ calls' = [calls EXCEPT ![s] = Append(@, "associate")]
          /\ result' = [result EXCEPT ![s] = store_fallthrough]
          /\ pc' = [pc EXCEPT ![s] = "returned"]
          /\ UNCHANGED caught
       \/ /\ assoc' = [assoc EXCEPT ![s] = "established"]
          /\ calls' = [calls EXCEPT ![s] = Append(@, "associate")]
          /\ pc' = [pc EXCEPT ![s] = "send_c_store"]
          /\ UNCHANGED << caught, result >>
    /\ UNCHANGED << config, view, event, dbVars, status >>

\* The file-meta preparation and assoc.send_c_store(event.dataset).
send_c_store(s) ==
    /\ pc[s] = "send_c_store"
    /\ \/ \* reading event.dataset or setting file_meta raises
          /\ store_raise(s)
          /\ UNCHANGED << status, calls >>
       \/ \* send_c_store raises
          /\ calls' = [calls EXCEPT ![s] = Append(@, "send_c_store")]
          /\ store_raise(s)
          /\ UNCHANGED status
       \/ \E st \in DownstreamStatuses :
            /\ status' = [status EXCEPT ![s] = st]
            /\ calls' = [calls EXCEPT ![s] = Append(@, "send_c_store")]
            /\ pc' = [pc EXCEPT ![s] = "release"]
            /\ UNCHANGED << caught, result >>
    /\ UNCHANGED << config, view, event, dbVars, assoc >>

\* assoc.release() and the return that follows it.
release(s) ==
    /\ pc[s] = "release"
    /\ calls' = [calls EXCEPT ![s] = Append(@, "release")]
    /\ \/ /\ assoc' = [assoc EXCEPT ![s] = "released"]
          /\ result' = [result EXCEPT ![s] = store_return(status[s])]
          /\ pc' = [pc EXCEPT ![s] = "returned"]
          /\ UNCHANGED caught
       \/ \* release raises
          /\ store_raise(s)
          /\ UNCHANGED assoc
    /\ UNCHANGED << config, view, event, dbVars, status >>

Next ==
    \E s \in Sessions :
        \/ Dispatch(s)
        \/ handle_echo(s)
        \/ get_worklist_from_db(s)
        \/ handle_find(s)
        \/ associate(s)
        \/ send_c_store(s)
        \/ release(s)

Spec == Init /\ [][Next]_vars

\* ------------------------------------------------------------- properties
\* The handler of session s has handed its outcome back to the engine.
Returned(s) == pc[s] = "returned"
StoreReturned(s) == Returned(s) /\ event[s].kind = "store"
FindReturned(s) == Returned(s) /\ event[s].kind = "find"

\* The one response of a search that found nothing: (0x0000, None).
NoDataResponses == << << STATUS_SUCCESS, None >> >>

\* C1: a handle_store whose outbound association is not established returns
\* 0xC002 (unable to process) and does not raise.
C1_NotEstablishedReturnsC002 ==
    \A s \in Sessions :
        (StoreReturned(s) /\ assoc[s] = "not_established")
            => result[s] = ReturnStatus(STATUS_C002)

\* C2: a handle_store in which a statement raised an exception returns 0xC000
\* (cannot understand), never 0xC002, and the exception does not leave it.
C2_ExceptionReturnsC000 ==
    \A s \in Sessions :
        (StoreReturned(s) /\ caught[s] # "none")
            => result[s] = ReturnStatus(STATUS_C000)

\* C3: a handle_store whose association was established and whose send was
\* answered with a failure status returns 0xC002, not the downstream status.
C3_DownstreamFailureReturnsC002 ==
    \A s \in Sessions :
        (StoreReturned(s) /\ caught[s] = "none" /\ assoc[s] = "released"
            /\ IsFailureStatus(status[s]))
            => result[s] = ReturnStatus(STATUS_C002)

\* C4: a handle_store whose association was established and whose send was
\* answered with a success status returns exactly that downstream status.
C4_SuccessPassedThrough ==
    \A s \in Sessions :
        (StoreReturned(s) /\ caught[s] = "none" /\ assoc[s] = "released"
            /\ IsSuccessStatus(status[s]))
            => /\ result[s].kind = "status"
               /\ result[s].status = status[s][1]

C4_Witness ==
    \E s \in Sessions :
        /\ StoreReturned(s) /\ caught[s] = "none" /\ assoc[s] = "released"
        /\ IsSuccessStatus(status[s])
        /\ calls[s] = << "associate", "send_c_store", "release" >>

\* The outcomes C5 allows: one success status, one success-with-no-data
\* response, one or more pending responses, or 0xC000, 0xC001, 0xC002.
AllowedOutcome(r) ==
    \/ /\ r.kind = "status"
       /\ r.status \in { STATUS_SUCCESS, STATUS_C000, STATUS_C001, STATUS_C002 }
    \/ /\ r.kind = "responses"
       /\ \/ r.responses = NoDataResponses
          \/ /\ Len(r.responses) >= 1
             /\ \A i \in 1..Len(r.responses) : r.responses[i][1] = STATUS_PENDING

\* C5: every handler invocation returns without raising, and its outcome is
\* one of the allowed outcomes.
C5_EveryHandlerYieldsAllowedOutcome ==
    \A s \in Sessions : Returned(s) => AllowedOutcome(result[s])

\* C6: every outbound association handle_store established has been released
\* when the handler returns.
C6_OutboundAlwaysReleased ==
    \A s \in Sessions :
        (StoreReturned(s) /\ assoc[s] \in { "established", "released" })
            => \E i \in 1..Len(calls[s]) : calls[s][i] = "release"

\* C7: when get_worklist_from_db has returned, the connection and the cursor
\* it acquired are closed, whichever statement failed.
C7_DbHandlesClosed ==
    \A s \in Sessions :
        pc[s] \in { "handle_find", "returned" }
            => conn[s] # "open" /\ cursor[s] # "open"

\* A connection was acquired and the cursor was not: conn.cursor() failed.
C7_Witness ==
    \E s \in Sessions :
        /\ FindReturned(s)
        /\ conn[s] = "closed" /\ cursor[s] = "None" /\ caught[s] # "none"

\* C8: after any retrieval failure get_worklist_from_db returns the empty
\* list and handle_find's outcome is the outcome of a search with no match;
\* no exception leaves either.
C8_RetrievalFailureIsNoData ==
    \A s \in Sessions :
        (event[s].kind = "find" /\ caught[s] # "none")
            => /\ pc[s] \in { "handle_find", "returned" }
               /\ worklist_entries[s] = << >>
               /\ Returned(s) => /\ result[s].kind = "responses"
                                 /\ result[s].responses = NoDataResponses

\* Both kinds of exception were caught, in sessions that both returned, with
\* a view that holds rows for the requestor.
C8_Witness ==
    \E s, t \in Sessions :
        /\ FindReturned(s) /\ caught[s] = "DatabaseError"
        /\ FindReturned(t) /\ caught[t] = "Exception"
        /\ QueryResults(view, event[s].requestor_ae) # { << >> }

\* C9: a handle_find whose fetch returned no row emits exactly one response,
\* (0x0000, no dataset), and no pending response.
C9_ZeroRowsOneSuccess ==
    \A s \in Sessions :
        (FindReturned(s) /\ caught[s] = "none" /\ worklist_entries[s] = << >>)
            => /\ result[s].kind = "responses"
               /\ Len(result[s].responses) = 1
               /\ result[s].responses[1] = << STATUS_SUCCESS, None >>
               /\ \A i \in 1..Len(result[s].responses) :
                      result[s].responses[i][1] # STATUS_PENDING

\* The query ran without error on a view that holds rows, none for the
\* requestor.
C9_Witness ==
    \E s \in Sessions :
        /\ FindReturned(s) /\ caught[s] = "none" /\ worklist_entries[s] = << >>
        /\ view # {}
        /\ result[s].kind = "responses"

\* The i-th response is pending and carries the dataset of the i-th row: its
\* identifiers are those of that row.
ResponseOfRow(rsp, row) ==
    /\ rsp[1] = STATUS_PENDING
    /\ rsp[2] = << BuildDataset(row) >>
    /\ rsp[2][1].PatientID = row.PATIENT_ID
    /\ rsp[2][1].ScheduledProcedureStepSequence[1].ScheduledProcedureStepID
           = IntStr(row.APPOINTMENT_ID[1])

RowsAnswered(s) ==
    /\ result[s].kind = "responses"
    /\ Len(result[s].responses) = Len(worklist_entries[s])
    /\ \A i \in 1..Len(worklist_entries[s]) :
           ResponseOfRow(result[s].responses[i], worklist_entries[s][i])

SessionState(s) ==
    << pc[s], event[s], conn[s], cursor[s], caught[s], worklist_entries[s],
       assoc[s], status[s], calls[s], result[s] >>

\* A step is the step of one session: it leaves every other session's state,
\* the configuration and the view as they were.
IsolatedStep ==
    /\ config' = config
    /\ view' = view
    /\ \E s \in Sessions :
          \A t \in Sessions \ {s} : SessionState(t)' = SessionState(t)

\* The next step of an Echo or Find that has been dispatched.
EchoOrFindStep(t) == handle_echo(t) \/ get_worklist_from_db(t) \/ handle_find(t)

\* An Echo or Find under way can take its next step, whatever the other
\* sessions are doing.
NeverBlocked ==
    \A t \in Sessions :
        pc[t] \in { "handle_echo", "get_worklist_from_db", "handle_find" }
            => ENABLED EchoOrFindStep(t)

\* C11: no handler step writes the state of another session or the shared
\* configuration, and an Echo or Find under way is never kept from its next
\* step, in particular not by a Push that stays in its outbound relay forever.
C11_SessionsIsolated == [][IsolatedStep]_vars /\ []NeverBlocked

\* A Push waits in send_c_store on an established association while an Echo
\* or Find of another session has returned.
C11_Witness ==
    \E s, t \in Sessions :
        /\ s # t
        /\ pc[s] = "send_c_store" /\ assoc[s] = "established"
        /\ Returned(t) /\ event[t].kind \in { "echo", "find" }
        /\ result[t].kind \in { "status", "responses" }

\* ------------------------------------------- one Find over bounded inputs
\* Longest requestor AE title, endpoint list, patient name and patient
\* identifier drawn as inputs.
MaxAELen == 2
MaxListLen == 4
MaxNameLen == 6
MaxIdLen == 2

\* The non-empty strings over an alphabet, up to a length.
Strings(alphabet, maxLen) == UNION { [1..k -> alphabet] : k \in 1..maxLen }

\* Requestor AE titles: a letter and the period, both legal in an AE title.
IdentityInputs == Strings({ "A", "." }, MaxAELen) \cup RequestorAEs

\* AETitle column values: lists of tokens over two letters.
ListInputs == Strings({ "A", "B", "," }, MaxListLen)

\* PATIENT_NAME column values: tokens over two letters, any spacing.
NameInputs == Strings({ "A", "B", " " }, MaxNameLen)

\* PATIENT_ID column values.
PatientIdInputs == Strings({ "P", "_", "." }, MaxIdLen)

\* APPOINTMENT_ID column values: one to nine decimal digits.
AppointmentIdInputs ==
    { << 0 >>, << 7 >>, << 42 >>, << 99999 >>, << 123456 >>, << 999999 >>,
      << 1000000 >>, << 12345678 >>, << 99999999 >>, << 100000000 >> }

\* A row whose endpoint list is the single title "A", varied one column at a
\* time.
InputRow(name, apptId, physName, physId, patId, aeList) ==
    Row(name, << "0", "8", ":", "0", "0" >>, apptId, physName, physId, patId, aeList)

InputRows ==
    LET name == << "A", " ", "B" >>
        phys == << "D", "R" >>
        pid  == << "P" >>
        ae   == << "A" >>
    IN  { InputRow(name, << 7 >>, phys, << 5 >>, pid, l) : l \in ListInputs }
        \cup { InputRow(n, << 7 >>, phys, << 5 >>, pid, ae) : n \in NameInputs }
        \cup { InputRow(name, i, phys, << 5 >>, pid, ae) : i \in AppointmentIdInputs }
        \cup { InputRow(name, << 7 >>, pn, pi, pid, ae) :
                 pn \in { None, phys }, pi \in { None, << 0 >>, << 5 >> } }

\* Two rows of one appointment that differ in the patient identifier only.
PatientIdPairs ==
    { { InputRow(<< "A", " ", "B" >>, << 7 >>, << "D", "R" >>, << 5 >>, p, << "A" >>),
        InputRow(<< "A", " ", "B" >>, << 7 >>, << "D", "R" >>, << 5 >>, q, << "A" >>) } :
        p \in PatientIdInputs, q \in PatientIdInputs }

InputViews == { { r } : r \in InputRows } \cup PatientIdPairs \cup Views

FindInit ==
    /\ view \in InputViews
    /\ HandlersIdle

\* The engine dispatches a C-FIND of some requestor to handle_find.
FindDispatch ==
    /\ pc[1] = "idle"
    /\ \E ae \in IdentityInputs :
          event' = [event EXCEPT ![1] = [ kind |-> "find", requestor_ae |-> ae ]]
    /\ pc' = [pc EXCEPT ![1] = "get_worklist_from_db"]
    /\ UNCHANGED << config, view, caught, dbVars, storeVars, result >>

FindNext ==
    \/ FindDispatch
    \/ get_worklist_from_db(1)
    \/ handle_find(1)

FindSpec == FindInit /\ [][FindNext]_vars

\* The query of session 1 ran without error: entries holds what it fetched.
Fetched == pc[1] \in { "handle_find", "returned" } /\ caught[1] = "none"

\* The rows session 1 fetched and the responses it returned.
entries == worklist_entries[1]
emitted == result[1].responses

RECURSIVE TokensFrom(_, _)
\* The tokens of a comma-separated list, empty ones included.
TokensFrom(list, cur) ==
    IF list = << >> THEN << cur >>
    ELSE IF Head(list) = "," THEN << cur >> \o TokensFrom(Tail(list), << >>)
    ELSE TokensFrom(Tail(list), Append(cur, Head(list)))

Tokens(list) == TokensFrom(list, << >>)

IsToken(identity, list) ==
    list # None /\ \E k \in 1..Len(Tokens(list)) : Tokens(list)[k] = identity

\* C12: a row is fetched if and only if the requestor identity equals one
\* whole token of the row's comma-separated endpoint-identity list.
C12_WholeTokenMatch ==
    Fetched =>
        \A r \in view :
            (\E i \in 1..Len(entries) : entries[i] = r)
                <=> IsToken(event[1].requestor_ae, r.AETitle)

\* The same for requestor identities that hold no period.
C12_LiteralIdentityMatch ==
    (Fetched /\ \A k \in 1..Len(event[1].requestor_ae) : event[1].requestor_ae[k] # ".")
        => \A r \in view :
              (\E i \in 1..Len(entries) : entries[i] = r)
                  <=> IsToken(event[1].requestor_ae, r.AETitle)

\* handle_find returned one pending response per fetched row.
Emitted ==
    /\ Fetched /\ pc[1] = "returned"
    /\ result[1].kind = "responses"
    /\ Len(entries) >= 1
    /\ Len(emitted) = Len(entries)

\* The dataset emitted for the i-th fetched row.
ds(i) == emitted[i][2][1]

\* The name C13 describes: with three or more tokens the last two, then the
\* preceding ones in their order; with fewer the name itself.
ReorderedName(name) ==
    LET t == split(name)
        n == Len(t)
    IN  IF n >= 3
        THEN join(<< " " >>, << t[n - 1], t[n] >> \o SubSeq(t, 1, n - 2))
        ELSE name

RECURSIVE NumDigits(_)
\* How many decimal digits a non-negative integer has.
NumDigits(n) == IF n < 10 THEN 1 ELSE 1 + NumDigits(n \div 10)

DigitChars == { "0", "1", "2", "3", "4", "5", "6", "7", "8", "9" }

DigitValue(c) == CHOOSE d \in 0..9 : Digit(d) = c

RECURSIVE DecimalValue(_)
\* The number a string of decimal digits denotes.
DecimalValue(s) ==
    IF s = << >> THEN 0
    ELSE 10 * DecimalValue(SubSeq(s, 1, Len(s) - 1)) + DigitValue(s[Len(s)])

\* s is exactly width decimal digits and denotes n.
PaddedTo(s, width, n) ==
    /\ Len(s) = width
    /\ \A k \in 1..Len(s) : s[k] \in DigitChars
    /\ DecimalValue(s) = n

\* C14: for an appointment id of at most 8 digits the accession number is
\* exactly 8 digits, for one of at most 6 digits the procedure id is exactly 6
\* digits, and each denotes the appointment id.
C14_IdentifiersZeroPadded ==
    Emitted =>
        \A i \in 1..Len(entries) :
            LET id == entries[i].APPOINTMENT_ID[1]
            IN  /\ NumDigits(id) <= 8 => PaddedTo(ds(i).AccessionNumber, 8, id)
                /\ NumDigits(id) <= 6 => PaddedTo(ds(i).RequestedProcedureID, 6, id)

\* Ids that need padding, that fill the width, and that fit 8 digits only
\* were emitted: here one that fits both widths and needs zeros in each.
C14_Witness ==
    /\ Emitted
    /\ entries[1].APPOINTMENT_ID = << 99999 >>
    /\ ds(1).RequestedProcedureID # ds(1).AccessionNumber

\* The fixed root of the study identifier, with its joining period.
UidRoot == << "1", ".", "2", ".", "3", "." >>

\* The patient identifier with each underscore turned into a period.
Substituted(pid) == [k \in 1..Len(pid) |-> IF pid[k] = "_" THEN "." ELSE pid[k]]

\* root.appointment-id.substituted-patient-id
SynthesizedUid(row) ==
    UidRoot \o IntStr(row.APPOINTMENT_ID[1]) \o << "." >> \o Substituted(row.PATIENT_ID)

\* Two identifiers that differ at most where one has an underscore and the
\* other a period.
EqualUpToSubstitution(p, q) ==
    /\ Len(p) = Len(q)
    /\ \A k \in 1..Len(p) : p[k] = q[k] \/ { p[k], q[k] } = { "_", "." }

\* Two fetched rows of one appointment with different patient identifiers.
SameAppointment(i, j) ==
    /\ i # j
    /\ entries[i].APPOINTMENT_ID = entries[j].APPOINTMENT_ID
    /\ entries[i].PATIENT_ID # entries[j].PATIENT_ID

\* C15 as stated: the study identifier is root, appointment id and
\* substituted patient identifier joined by periods, and for one appointment
\* id two different patient identifiers never give the same study identifier.
C15_UidReversible ==
    Emitted =>
        /\ \A i \in 1..Len(entries) : ds(i).StudyInstanceUID = SynthesizedUid(entries[i])
        /\ \A i, j \in 1..Len(entries) :
              SameAppointment(i, j) => ds(i).StudyInstanceUID # ds(j).StudyInstanceUID

\* C15 amended: the study identifier is root, appointment id and substituted
\* patient identifier joined by periods, and for one appointment id two
\* different patient identifiers give the same study identifier exactly when
\* they are equal up to exchanging underscores and periods.
C15_UidCollidesOnlyUpToSubstitution ==
    Emitted =>
        /\ \A i \in 1..Len(entries) : ds(i).StudyInstanceUID = SynthesizedUid(entries[i])
        /\ \A i, j \in 1..Len(entries) :
              SameAppointment(i, j) =>
                  (ds(i).StudyInstanceUID = ds(j).StudyInstanceUID
                      <=> EqualUpToSubstitution(entries[i].PATIENT_ID, entries[j].PATIENT_ID))

\* Two rows of one appointment were emitted whose patient identifiers both
\* hold an underscore and differ.
C15_Witness ==
    /\ Emitted
    /\ Len(entries) = 2
    /\ SameAppointment(1, 2)
    /\ \A i \in 1..2 : \E k \in 1..Len(entries[i].PATIENT_ID) : entries[i].PATIENT_ID[k] = "_"

\* C16: every emitted dataset holds exactly one scheduled step, and that step
\* exactly one performing-physician item, also when the row's physician name
\* or physician id is missing.
C16_OneStepOnePhysician ==
    (Fetched /\ pc[1] = "returned" /\ result[1].kind = "responses" /\ entries # << >>)
        => /\ Len(emitted) = Len(entries)
           /\ \A i \in 1..Len(emitted) :
                 /\ Len(emitted[i][2]) = 1
                 /\ Len(ds(i).ScheduledProcedureStepSequence) = 1
                 /\ Len(ds(i).ScheduledProcedureStepSequence[1]
                            .ScheduledPerformingPhysicianSequence) = 1

\* A row with neither physician name nor physician id was emitted.
C16_Witness ==
    /\ Emitted
    /\ entries[1].PHYSICIAN_NAME = None
    /\ entries[1].PHYSYCIAN_ID = None

\* C19: when the dataset of any fetched row cannot be built, handle_find
\* raises and hands back no response at all, also for the rows before it.
C19_BadRowAbortsBatch ==
    (Fetched /\ pc[1] = "returned"
        /\ \E i \in 1..Len(entries) : RowRaises(entries[i]))
        => /\ result[1].kind = "raise"
           /\ emitted = << >>

\* A well-formed row was fetched before a malformed one.
C19_Witness ==
    /\ Fetched /\ pc[1] = "returned"
    /\ Len(entries) = 2
    /\ ~RowRaises(entries[1])
    /\ RowRaises(entries[2])

\* A step in which some session's handle_echo runs from entry to return.
EchoStep(s) == pc[s] = "handle_echo" /\ pc'[s] = "returned"

\* What handle_echo may change: the session's position and its outcome.
EchoFrame(s) ==
    /\ result' = [result EXCEPT ![s] = ReturnStatus(STATUS_SUCCESS)]
    /\ pc' = [pc EXCEPT ![s] = "returned"]
    /\ UNCHANGED << config, view, event, caught, conn, cursor, worklist_entries,
                    assoc, status, calls >>

\* C17: for any requestor identity handle_echo returns 0x0000 and changes
\* nothing else: no database connection, no outbound association, no
\* configuration, of its own session or of any other.
C17_EchoChangesNothing ==
    [][\A s \in Sessions : EchoStep(s) => EchoFrame(s)]_vars

\* An echo has returned while another session holds an open association.
C17_Witness ==
    \E s, t \in Sessions :
        /\ s # t
        /\ event[s].kind = "echo" /\ Returned(s)
        /\ result[s] = ReturnStatus(STATUS_SUCCESS)
        /\ conn[s] = "None" /\ assoc[s] = "None"
        /\ assoc[t] = "established"

\* C18: handle_store hands back its status only after the outbound relay has
\* finished: whenever the association was established, the send has returned
\* and the release has been requested, in that order, before the return.
C18_ReturnsAfterRelay ==
    \A s \in Sessions :
        /\ pc[s] \in { "associate", "send_c_store", "release" }
              => result[s] = NoResult
        /\ (StoreReturned(s) /\ assoc[s] \in { "established", "released" })
              => calls[s] = << "associate", "send_c_store", "release" >>

\* C20: an established association whose send yields an empty status makes
\* handle_store return 0xC001, and only after release was requested; on an
\* association that is not established neither send nor release is called.
C20_EmptyStatusReturnsC001 ==
    \A s \in Sessions :
        /\ (pc[s] = "release" /\ status[s] = << >>) => result[s] = NoResult
        /\ (StoreReturned(s) /\ caught[s] = "none"
               /\ assoc[s] \in { "established", "released" } /\ status[s] = << >>)
              => /\ result[s] = ReturnStatus(STATUS_C001)
                 /\ calls[s] = << "associate", "send_c_store", "release" >>
        /\ assoc[s] = "not_established"
              => /\ calls[s] = << "associate" >>
                 /\ StoreReturned(s)

\* Both cases in one state: one push answered 0xC001 for an empty status,
\* another found its association not established.
C20_Witness ==
    \E s, t \in Sessions :
        /\ StoreReturned(s) /\ caught[s] = "none" /\ assoc[s] = "released"
        /\ status[s] = << >> /\ result[s] = ReturnStatus(STATUS_C001)
        /\ StoreReturned(t) /\ assoc[t] = "not_established"

====
